---- MODULE Spec2Model ----
(***************************************************************************)
(* License-key issuing (keygen.rs) and the token protocol it feeds; the     *)
(* request limits of the JMAP server (rate_limit.rs); the record of        *)
(* deleted blobs kept for undelete (undelete.rs).                          *)
(*                                                                         *)
(* Representation.  A Rust String / &str is a sequence of Unicode code     *)
(* points (so "--help" is <<45,45,104,101,108,112>>); a byte buffer is a   *)
(* sequence of numbers in 0..255.  TLC integers are 32-bit, so every       *)
(* timestamp, account count and length of the model is below 2^31; a       *)
(* decoded integer that does not fit is represented by MaxInt, which is    *)
(* larger than every time the model uses.                                  *)
(***************************************************************************)
EXTENDS Integers, Sequences, FiniteSets, TLC

VARIABLES
    private_key_pkcs8,  \* file private_key.pkcs8
    public_key_txt,     \* file public_key.txt
    license_key_txt,    \* file license_key.txt
    api_key_txt,        \* file api_key.txt
    build,              \* which copy of keygen.rs the binary was built from
    outcome,            \* how the last run of main ended
    last,               \* the inputs and locals of the last run of main
    fields,             \* token protocol: the fields handed to the issuer
    signer,             \* token protocol: the issuer's key pair
    wire,               \* token protocol: the wire token in transit
    origin,             \* token protocol: how `wire` came about
    verdict,            \* token protocol: the verifier's last answer
    core,               \* rate limits: core.jmap.rate_authenticated / _anonymous
    lookup,             \* rate limits: the request counters in the lookup store
    access_token,       \* rate limits: the caller's token and its limiters
    reply,              \* rate limits: what the last call returned
    enterprise,         \* undelete: Core.enterprise and its undelete setting
    clock,              \* undelete: what now() returns, in seconds
    storage,            \* undelete: the reservations in storage.data
    batch,              \* undelete: the BatchBuilder a caller is filling
    hold,               \* undelete: whether hold_undelete has been called
    held,               \* undelete: the hold_undelete calls that were committed
    deleted             \* undelete: what list_deleted returned, if it ran last

fileVars == <<private_key_pkcs8, public_key_txt, license_key_txt, api_key_txt>>
mainVars == <<private_key_pkcs8, public_key_txt, license_key_txt, api_key_txt,
              build, outcome, last>>
tokenVars == <<fields, signer, wire, origin, verdict>>
rateVars == <<core, lookup, access_token, reply>>
undeleteVars == <<enterprise, clock, storage, batch, hold, held, deleted>>
serverVars == <<core, lookup, access_token, reply,
                enterprise, clock, storage, batch, hold, held, deleted>>
vars == <<private_key_pkcs8, public_key_txt, license_key_txt, api_key_txt,
          build, outcome, last, fields, signer, wire, origin, verdict,
          core, lookup, access_token, reply,
          enterprise, clock, storage, batch, hold, held, deleted>>

(***************************************************************************)
(* Bounds of the model.                                                    *)
(***************************************************************************)
NumKeys == 2
MaxOpts == 2
NumApiKeys == 1

KeyIds == 1..NumKeys

\* The largest integer TLC holds; stands for every decoded value >= 2^31.
MaxInt == 2147483646 + 1

(***************************************************************************)
(* Integer and string encodings used by generate_license_key.              *)
(***************************************************************************)

\* u64::to_be_bytes / u32::to_be_bytes: the byte order a slip would produce.
RECURSIVE to_be_bytes(_, _)
to_be_bytes(x, n) ==
    IF n = 0 THEN <<>> ELSE to_be_bytes(x \div 256, n - 1) \o <<x % 256>>

\* u64::to_le_bytes (n = 8) and u32::to_le_bytes (n = 4).
RECURSIVE to_le_bytes(_, _)
to_le_bytes(x, n) ==
    IF n = 0 THEN <<>> ELSE <<x % 256>> \o to_le_bytes(x \div 256, n - 1)

\* The UTF-8 encoding of one code point (Rust strings hold no surrogates).
Utf8Char(cp) ==
    IF cp < 128 THEN <<cp>>
    ELSE IF cp < 2048 THEN <<192 + (cp \div 64), 128 + (cp % 64)>>
    ELSE IF cp < 65536
         THEN <<224 + (cp \div 4096), 128 + ((cp \div 64) % 64), 128 + (cp % 64)>>
    ELSE <<240 + (cp \div 262144), 128 + ((cp \div 4096) % 64),
           128 + ((cp \div 64) % 64), 128 + (cp % 64)>>

\* str::as_bytes: the UTF-8 bytes of a string.
RECURSIVE as_bytes(_)
as_bytes(s) == IF s = <<>> THEN <<>> ELSE Utf8Char(Head(s)) \o as_bytes(Tail(s))

(***************************************************************************)
(* base64::engine::general_purpose::STANDARD                               *)
(***************************************************************************)
PAD == 61  \* '='

\* The STANDARD alphabet: A-Z a-z 0-9 + /
Sym(i) ==
    IF i < 26 THEN 65 + i
    ELSE IF i < 52 THEN 97 + (i - 26)
    ELSE IF i < 62 THEN 48 + (i - 52)
    ELSE IF i = 62 THEN 43 ELSE 47

\* STANDARD.encode: 3 bytes -> 4 symbols, the last group zero-filled and padded.
STANDARD_encode(b) ==
    [j \in 1..(4 * ((Len(b) + 2) \div 3)) |->
        LET g == (j - 1) \div 4
            p == (j - 1) % 4
            have == Len(b) - 3 * g
            B(k) == IF 3 * g + k <= Len(b) THEN b[3 * g + k] ELSE 0
        IN  CASE p = 0 -> Sym(B(1) \div 4)
              [] p = 1 -> Sym((B(1) % 4) * 16 + (B(2) \div 16))
              [] p = 2 -> IF have >= 2 THEN Sym((B(2) % 16) * 4 + (B(3) \div 64))
                          ELSE PAD
              [] p = 3 -> IF have >= 3 THEN Sym(B(3) % 64) ELSE PAD]

(***************************************************************************)
(* ring::signature::Ed25519KeyPair.  A key pair is a key id; the signature *)
(* is ideal: a 64-byte tag that is a one-to-one function of (key, message) *)
(* for messages of at most 62 bytes, and only the matching public key      *)
(* accepts it.                                                             *)
(***************************************************************************)
ED25519_SIGNATURE_LEN == 64

\* generate_pkcs8: the PKCS#8 document of key k (DER SEQUENCE tag, then the seed).
Pkcs8(k) == <<48, k>>
\* KeyPair::public_key: the public half of key k.
public_key(k) == <<k>>

Tag(k, msg) ==
    LET body == <<k, Len(msg)>> \o msg
    IN  [i \in 1..ED25519_SIGNATURE_LEN |-> IF i <= Len(body) THEN body[i] ELSE 0]

\* A signer that signs only the 24-byte fixed prefix, not the domain.
sign_prefix_only(k, msg) ==
    Tag(k, IF Len(msg) > 24 THEN SubSeq(msg, 1, 24) ELSE msg)

\* Ed25519KeyPair::sign
sign(k, msg) == Tag(k, msg)

\* Ed25519KeyPair::from_pkcs8: Ok(key pair) or Err(KeyRejected)
from_pkcs8(bytes) ==
    IF \E k \in KeyIds : bytes = Pkcs8(k)
    THEN [ok |-> TRUE, key |-> CHOOSE k \in KeyIds : bytes = Pkcs8(k)]
    ELSE [ok |-> FALSE, key |-> 0]

(***************************************************************************)
(* generate_license_key                                                    *)
(***************************************************************************)
\* key_data with the domain length counted in characters, not bytes.
key_data_char_len(valid_from, valid_to, domain, accounts) ==
    to_le_bytes(valid_from, 8) \o to_le_bytes(valid_to, 8)
        \o to_le_bytes(accounts, 4)
        \o to_le_bytes(Len(domain), 4)
        \o as_bytes(domain)

\* key_data with the two timestamps written in the opposite order.
key_data_swapped(valid_from, valid_to, domain, accounts) ==
    to_le_bytes(valid_to, 8) \o to_le_bytes(valid_from, 8)
        \o to_le_bytes(accounts, 4)
        \o to_le_bytes(Len(as_bytes(domain)), 4)
        \o as_bytes(domain)

\* The canonical bytes: key_data before the signature is appended.
key_data(valid_from, valid_to, domain, accounts) ==
    to_le_bytes(valid_from, 8) \o to_le_bytes(valid_to, 8)
        \o to_le_bytes(accounts, 4)
        \o to_le_bytes(Len(as_bytes(domain)), 4)
        \o as_bytes(domain)

\* generate_license_key signing before the domain bytes are appended.
generate_license_key_early_sign(vf, vt, domain, accounts, private_key) ==
    LET data == key_data(vf, vt, domain, accounts)
        signature == sign(private_key, SubSeq(data, 1, 24))
    IN  STANDARD_encode(data \o signature)

generate_license_key(valid_from, valid_to, domain, accounts, private_key) ==
    LET data == key_data(valid_from, valid_to, domain, accounts)
        signature == sign(private_key, data)
    IN  STANDARD_encode(data \o signature)

(***************************************************************************)
(* The verifying side (TokenCodec.decode and Verifier.verify), from the    *)
(* protocol description: base64-decode, split off the signature, decode    *)
(* the field region, check the signature, then the time window.            *)
(***************************************************************************)
\* The index of a symbol of the STANDARD alphabet, -1 for any other character.
SymIndex(c) ==
    IF c >= 65 /\ c <= 90 THEN c - 65
    ELSE IF c >= 97 /\ c <= 122 THEN c - 71
    ELSE IF c >= 48 /\ c <= 57 THEN c + 4
    ELSE IF c = 43 THEN 62
    ELSE IF c = 47 THEN 63
    ELSE -1

\* How many '=' end the text (at most two count as padding).
PadCount(s) ==
    IF Len(s) >= 1 /\ s[Len(s)] = PAD
    THEN (IF Len(s) >= 2 /\ s[Len(s) - 1] = PAD THEN 2 ELSE 1)
    ELSE 0

\* The bytes of a well-formed text of whole 4-symbol groups.
DecodedBytes(s) ==
    [m \in 1..(3 * (Len(s) \div 4) - PadCount(s)) |->
        LET g == (m - 1) \div 3
            k == (m - 1) % 3
            a == SymIndex(s[4 * g + k + 1])
            b == SymIndex(s[4 * g + k + 2])
        IN  CASE k = 0 -> a * 4 + (b \div 16)
              [] k = 1 -> (a % 16) * 16 + (b \div 4)
              [] k = 2 -> (a % 4) * 64 + b]

\* STANDARD.decode: padding required and canonical, no stray characters,
\* the unused low bits of the last symbol zero.
STANDARD_decode(s) ==
    LET pads == PadCount(s)
        nsym == Len(s) - pads
        wellFormed ==
            /\ Len(s) % 4 = 0
            /\ \A j \in 1..nsym : SymIndex(s[j]) >= 0
            /\ (pads = 1 => SymIndex(s[nsym]) % 4 = 0)
            /\ (pads = 2 => SymIndex(s[nsym]) % 16 = 0)
    IN  IF wellFormed
        THEN [ok |-> TRUE, bytes |-> DecodedBytes(s)]
        ELSE [ok |-> FALSE, bytes |-> <<>>]

\* u64::from_le_bytes / u32::from_le_bytes; MaxInt for a value >= 2^31.
RECURSIVE from_le_bytes(_)
from_le_bytes(b) ==
    IF b = <<>> THEN 0
    ELSE LET hi == from_le_bytes(Tail(b))
         IN  IF hi >= 8388608 THEN MaxInt ELSE hi * 256 + Head(b)

Utf8Error == [ok |-> FALSE, str |-> <<>>]

\* String::from_utf8: the code points of a valid UTF-8 buffer.
RECURSIVE from_utf8(_)
from_utf8(b) ==
    IF b = <<>> THEN [ok |-> TRUE, str |-> <<>>]
    ELSE
      LET b1 == b[1]
          n == IF b1 < 128 THEN 1
               ELSE IF b1 >= 194 /\ b1 <= 223 THEN 2
               ELSE IF b1 >= 224 /\ b1 <= 239 THEN 3
               ELSE IF b1 >= 240 /\ b1 <= 244 THEN 4
               ELSE 0
          C(i) == b[i] - 128
      IN  IF n = 0 \/ Len(b) < n
             \/ ~(\A i \in 2..n : b[i] >= 128 /\ b[i] <= 191)
          THEN Utf8Error
          ELSE
            LET cp == CASE n = 1 -> b1
                        [] n = 2 -> (b1 - 192) * 64 + C(2)
                        [] n = 3 -> (b1 - 224) * 4096 + C(2) * 64 + C(3)
                        [] n = 4 -> (b1 - 240) * 262144 + C(2) * 4096
                                        + C(3) * 64 + C(4)
                bad == \/ n = 3 /\ (cp < 2048 \/ (cp >= 55296 /\ cp <= 57343))
                       \/ n = 4 /\ (cp < 65536 \/ cp > 1114111)
                rest == from_utf8(SubSeq(b, n + 1, Len(b)))
            IN  IF bad \/ ~rest.ok THEN Utf8Error
                ELSE [ok |-> TRUE, str |-> <<cp>> \o rest.str]

NoFields == [validFrom |-> -1, validTo |-> -1, accountLimit |-> -1, domain |-> <<>>]
\* 8 + 8 + 4 + 4: validFrom, validTo, accountLimit, domainLen.
FIXED_PREFIX_LEN == 24

\* A decoder that takes whatever follows the prefix as the domain.
decode_ignoring_length(buf) ==
    IF Len(buf) < FIXED_PREFIX_LEN THEN [ok |-> FALSE, fields |-> NoFields]
    ELSE
      LET dom == from_utf8(SubSeq(buf, 25, Len(buf)))
      IN  IF ~dom.ok
          THEN [ok |-> FALSE, fields |-> NoFields]
          ELSE [ok |-> TRUE,
                fields |-> [validFrom |-> from_le_bytes(SubSeq(buf, 1, 8)),
                            validTo |-> from_le_bytes(SubSeq(buf, 9, 16)),
                            accountLimit |-> from_le_bytes(SubSeq(buf, 17, 20)),
                            domain |-> dom.str]]

\* TokenCodec.decode: the inverse of the canonical layout, or Malformed.
decode(buf) ==
    IF Len(buf) < FIXED_PREFIX_LEN THEN [ok |-> FALSE, fields |-> NoFields]
    ELSE
      LET domainLen == from_le_bytes(SubSeq(buf, 21, 24))
          dom == from_utf8(SubSeq(buf, 25, Len(buf)))
      IN  IF domainLen # Len(buf) - FIXED_PREFIX_LEN \/ ~dom.ok
          THEN [ok |-> FALSE, fields |-> NoFields]
          ELSE [ok |-> TRUE,
                fields |-> [validFrom |-> from_le_bytes(SubSeq(buf, 1, 8)),
                            validTo |-> from_le_bytes(SubSeq(buf, 9, 16)),
                            accountLimit |-> from_le_bytes(SubSeq(buf, 17, 20)),
                            domain |-> dom.str]]

\* Signature verification under a public key: only the tag made with the
\* matching private key over the same message is accepted.
signature_verifies(publicKey, msg, sig) ==
    \E k \in KeyIds : publicKey = public_key(k) /\ sig = sign(k, msg)

Failure(kind) == [status |-> kind, fields |-> NoFields]

\* The signature bytes and the field region of a decoded wire buffer.
SignatureOf(raw) == SubSeq(raw, Len(raw) - ED25519_SIGNATURE_LEN + 1, Len(raw))
FieldRegion(raw) == SubSeq(raw, 1, Len(raw) - ED25519_SIGNATURE_LEN)

\* A verifier that looks at the time window before the signature.
verify_window_first(publicKey, token, now) ==
    LET raw == STANDARD_decode(token)
    IN  IF ~raw.ok \/ Len(raw.bytes) < ED25519_SIGNATURE_LEN
        THEN Failure("Malformed")
        ELSE
          LET d == decode(FieldRegion(raw.bytes))
          IN  IF ~d.ok THEN Failure("Malformed")
              ELSE IF now < d.fields.validFrom THEN Failure("NotYetValid")
              ELSE IF now > d.fields.validTo THEN Failure("Expired")
              ELSE IF ~signature_verifies(publicKey, FieldRegion(raw.bytes),
                                          SignatureOf(raw.bytes))
                   THEN Failure("SignatureInvalid")
              ELSE [status |-> "Ok", fields |-> d.fields]

\* Verifier.verify, steps 1 to 6.
verify(publicKey, token, now) ==
    LET raw == STANDARD_decode(token)
    IN  IF ~raw.ok THEN Failure("Malformed")
        ELSE IF Len(raw.bytes) < ED25519_SIGNATURE_LEN THEN Failure("Malformed")
        ELSE
          LET d == decode(FieldRegion(raw.bytes))
          IN  IF ~d.ok THEN Failure("Malformed")
              ELSE IF ~signature_verifies(publicKey, FieldRegion(raw.bytes),
                                          SignatureOf(raw.bytes))
                   THEN Failure("SignatureInvalid")
              ELSE IF now < d.fields.validFrom THEN Failure("NotYetValid")
              ELSE IF now > d.fields.validTo THEN Failure("Expired")
              ELSE [status |-> "Ok", fields |-> d.fields]

(***************************************************************************)
(* rate_limit.rs: the values RateLimiter for Server works on.              *)
(***************************************************************************)
\* Option<Rate> of core.jmap: None, or Some(rate) of rate.requests a period.
NoRate == [is_some |-> FALSE, requests |-> 0]
SomeRate(n) == [is_some |-> TRUE, requests |-> n]

\* The limiter behind AccessToken::is_http_request_allowed and
\* is_upload_allowed: none, or one of max_concurrent slots.
NoLimiter == [enabled |-> FALSE, max_concurrent |-> 0, concurrent |-> 0]
ConcurrencyLimiter(max) ==
    [enabled |-> TRUE, max_concurrent |-> max, concurrent |-> 0]

NoReply ==
    [call |-> "none", rate |-> "skipped", limiter |-> "skipped",
     result |-> "none", in_flight |-> FALSE, event |-> "none"]

\* A server that has taken no request.
RateIdle ==
    /\ core = [rate_authenticated |-> NoRate, rate_anonymous |-> NoRate]
    /\ lookup = [authenticated |-> 0, anonymous |-> 0]
    /\ access_token = [unlimited |-> FALSE, http |-> NoLimiter,
                       upload |-> NoLimiter]
    /\ reply = NoReply

(***************************************************************************)
(* undelete.rs: the values hold_undelete and list_deleted work on.         *)
(***************************************************************************)
\* Core.enterprise: None, or Some(enterprise) whose undelete is None or
\* Some(undelete) with undelete.retention.as_secs() = retention.
NoEnterprise ==
    [is_some |-> FALSE, undelete |-> [is_some |-> FALSE, retention |-> 0]]
Enterprise(undelete) == [is_some |-> TRUE, undelete |-> undelete]
NoUndelete == [is_some |-> FALSE, retention |-> 0]
Undelete(retention) == [is_some |-> TRUE, retention |-> retention]

\* now() when the model starts.
StartOfTime == 1700000000

NoBatch == [open |-> FALSE, account_id |-> 0, ops |-> <<>>]
NoListing == [called |-> FALSE, account_id |-> 0, now |-> 0, ok |-> TRUE,
              results |-> <<>>]

\* A server that has deleted nothing.
UndeleteIdle ==
    /\ enterprise = NoEnterprise
    /\ clock = StartOfTime
    /\ storage = {}
    /\ batch = NoBatch
    /\ hold = FALSE
    /\ held = {}
    /\ deleted = NoListing

ServerIdle == RateIdle /\ UndeleteIdle

(***************************************************************************)
(* The token protocol as a state machine: an issuer signs fields, the      *)
(* token travels (possibly altered or cut short), a verifier answers.      *)
(***************************************************************************)
\* "", "é", "a.io", "example.com": 0, 2, 4 and 11 bytes of UTF-8.
DomainSet == {<<>>, <<233>>, <<97, 46, 105, 111>>,
              <<101, 120, 97, 109, 112, 108, 101, 46, 99, 111, 109>>}
TimeSet == {1700000000, 1700000500, 1857680000}
AccountSet == {0, 100, 2000000}
FieldSet == [validFrom : TimeSet, validTo : TimeSet,
             accountLimit : AccountSet, domain : DomainSet]
\* The tokens that are altered in transit: one per padding length of the
\* wire text (0, 1, 2), with a proper, an inverted and a one-second window.
TamperFieldSet ==
    {[validFrom |-> 1700000000, validTo |-> 1857680000, accountLimit |-> 100,
      domain |-> <<101, 120, 97, 109, 112, 108, 101, 46, 99, 111, 109>>],
     [validFrom |-> 1857680000, validTo |-> 1700000000, accountLimit |-> 2000000,
      domain |-> <<97, 46, 105, 111>>],
     [validFrom |-> 1700000500, validTo |-> 1700000500, accountLimit |-> 0,
      domain |-> <<>>]}
\* The times a verifier is asked at: on and just outside the issued bounds.
NowSet(f) == {f.validFrom - 1, f.validFrom, f.validTo, f.validTo + 1}
TamperBits == {0, 1, 2, 3, 4, 5}

NoFile == [exists |-> FALSE, data |-> <<>>]
File(bytes) == [exists |-> TRUE, data |-> bytes]
NoVerdict == [status |-> "none", fields |-> NoFields, publicKey |-> <<>>, now |-> -1]

\* The symbol index x with bit k flipped.
FlipBit(x, k) ==
    LET w == 2 ^ k IN IF (x \div w) % 2 = 1 THEN x - w ELSE x + w

\* What one character of the token may be changed into.
TamperSet(c) ==
    ((IF SymIndex(c) >= 0 THEN {Sym(FlipBit(SymIndex(c), k)) : k \in TamperBits}
      ELSE {})
     \cup {PAD, 33, 65}) \ {c}

\* The buffer the issuer encoded: canonical bytes, then the signature.
IssuedBuffer ==
    LET data == key_data(fields.validFrom, fields.validTo, fields.domain,
                         fields.accountLimit)
    IN  data \o sign(signer, data)

InitCommon ==
    /\ signer \in KeyIds
    /\ wire = <<>>
    /\ origin = "none"
    /\ verdict = NoVerdict
    /\ private_key_pkcs8 = NoFile
    /\ public_key_txt = NoFile
    /\ license_key_txt = NoFile
    /\ api_key_txt = NoFile
    /\ build = "src"
    /\ outcome = "none"
    /\ last = [argv |-> <<>>]
    /\ ServerIdle

InitToken == fields \in FieldSet /\ InitCommon

InitTamper == fields \in TamperFieldSet /\ InitCommon

\* Signer.issue: generate_license_key on the fields with the issuer's key.
Issue ==
    /\ origin = "none"
    /\ wire' = generate_license_key(fields.validFrom, fields.validTo,
                                    fields.domain, fields.accountLimit, signer)
    /\ origin' = "issued"
    /\ UNCHANGED <<fields, signer, verdict, mainVars, serverVars>>

\* One character of the issued token is changed in transit.
Tamper ==
    /\ origin = "issued"
    /\ verdict = NoVerdict
    /\ \E i \in 1..Len(wire) : \E c \in TamperSet(wire[i]) :
          wire' = [wire EXCEPT ![i] = c]
    /\ origin' = "tampered"
    /\ UNCHANGED <<fields, signer, verdict, mainVars, serverVars>>

\* The issued buffer is cut to its first n bytes and encoded again.
Truncate ==
    /\ origin = "issued"
    /\ verdict = NoVerdict
    /\ \E n \in 0..(Len(IssuedBuffer) - 1) :
          wire' = STANDARD_encode(SubSeq(IssuedBuffer, 1, n))
    /\ origin' = "truncated"
    /\ UNCHANGED <<fields, signer, verdict, mainVars, serverVars>>

\* Verifier.verify on the token in transit, under some public key, at some time.
Verify ==
    /\ origin # "none"
    /\ verdict = NoVerdict
    /\ \E k \in KeyIds : \E now \in NowSet(fields) :
          verdict' = verify(public_key(k), wire, now)
                         @@ [publicKey |-> public_key(k), now |-> now]
    /\ UNCHANGED <<fields, signer, wire, origin, mainVars, serverVars>>

NextToken == Issue \/ Verify

\* Issuing and verifying, over the whole field set.
SpecToken == InitToken /\ [][NextToken]_vars

NextTamper == Issue \/ Tamper \/ Truncate \/ Verify

\* Issuing, altering in transit and verifying.
SpecTamper == InitTamper /\ [][NextTamper]_vars

(***************************************************************************)
(* keygen.rs: main.                                                        *)
(***************************************************************************)
OPT_HELP == <<45, 45, 104, 101, 108, 112>>                                \* --help
OPT_NO_KEYS == <<45, 45, 110, 111, 45, 107, 101, 121, 115>>               \* --no-keys
OPT_DOMAIN == <<45, 45, 100, 111, 109, 97, 105, 110>>                     \* --domain
OPT_ACCOUNTS == <<45, 45, 97, 99, 99, 111, 117, 110, 116, 115>>           \* --accounts
OPT_VALID_FROM == <<45, 45, 118, 97, 108, 105, 100, 45, 102, 114, 111, 109>>  \* --valid-from
OPT_VALID_TO == <<45, 45, 118, 97, 108, 105, 100, 45, 116, 111>>          \* --valid-to
\* args[0], the program's name: "StalwartGen"
ProgramName == <<83, 116, 97, 108, 119, 97, 114, 116, 71, 101, 110>>

\* The two copies of keygen.rs differ in their built-in defaults.
Builds == {"src", "crates"}
\* "apt27.us.kg" and "offsec.com"
DefaultDomain(b) ==
    IF b = "src" THEN <<97, 112, 116, 50, 55, 46, 117, 115, 46, 107, 103>>
    ELSE <<111, 102, 102, 115, 101, 99, 46, 99, 111, 109>>
DefaultAccounts(b) == IF b = "src" THEN 100000 ELSE 2000000
FIVE_YEARS == 5 * 365 * 24 * 60 * 60

\* What print_help documents as the defaults: "example.com" and 100.
HelpDefaultDomain == <<101, 120, 97, 109, 112, 108, 101, 46, 99, 111, 109>>
HelpDefaultAccounts == 100

ParseError == [ok |-> FALSE, value |-> 0]

\* The value of a run of decimal digits, most significant first, or -1.
RECURSIVE DigitsValue(_, _)
DigitsValue(s, acc) ==
    IF s = <<>> THEN acc
    ELSE IF Head(s) < 48 \/ Head(s) > 57 THEN -1
    ELSE IF acc > 214748363 THEN MaxInt
    ELSE DigitsValue(Tail(s), acc * 10 + (Head(s) - 48))

\* str::parse::<u64>() and ::<u32>(): an optional '+', then one or more
\* decimal digits.  (Every number of the model is below 2^31, where the two
\* widths accept the same texts.)
parse(s) ==
    LET digits == IF s # <<>> /\ Head(s) = 43 THEN Tail(s) ELSE s
    IN  IF digits = <<>> \/ DigitsValue(digits, 0) < 0 THEN ParseError
        ELSE [ok |-> TRUE, value |-> DigitsValue(digits, 0)]

\* Result::unwrap_or
unwrap_or(r, default) == IF r.ok THEN r.value ELSE default

\* The locals of main before the option loop (lines 42-46).
InitialLocals(b, now) ==
    [status |-> "ok",
     generate_keys |-> TRUE,
     domain |-> DefaultDomain(b),
     accounts |-> DefaultAccounts(b),
     valid_from |-> now,
     valid_to |-> now + FIVE_YEARS]

\* The option loop of main (lines 48-94); i is the index into args, from 0.
\* `now` is what Utc::now() returns when --valid-from cannot be parsed (the
\* clock does not advance within a run).  The sum valid_from + FIVE_YEARS of
\* line 81 is computed whether or not the value parses; for a valid_from above
\* 2^64 - FIVE_YEARS it overflows u64, which is beyond the model's integers.
RECURSIVE parse_args(_, _, _, _)
parse_args(args, i, st, now) ==
    IF ~(i < Len(args)) THEN st
    ELSE
      LET opt == args[i + 1]
          hasValue == i + 1 < Len(args)
          value == args[i + 2]
          missing == [st EXCEPT !.status = "arg_error"]
      IN  IF opt = OPT_NO_KEYS
          THEN parse_args(args, i + 1, [st EXCEPT !.generate_keys = FALSE], now)
          ELSE IF opt = OPT_DOMAIN
          THEN IF hasValue
               THEN parse_args(args, i + 2, [st EXCEPT !.domain = value], now)
               ELSE missing
          ELSE IF opt = OPT_ACCOUNTS
          THEN IF hasValue
               THEN parse_args(args, i + 2,
                        [st EXCEPT !.accounts = unwrap_or(parse(value), 100)], now)
               ELSE missing
          ELSE IF opt = OPT_VALID_FROM
          THEN IF hasValue
               THEN parse_args(args, i + 2,
                        [st EXCEPT !.valid_from = unwrap_or(parse(value), now)],
                        now)
               ELSE missing
          ELSE IF opt = OPT_VALID_TO
          THEN IF hasValue
               THEN parse_args(args, i + 2,
                        [st EXCEPT !.valid_to =
                            unwrap_or(parse(value), st.valid_from + FIVE_YEARS)],
                        now)
               ELSE missing
          ELSE missing

\* The command lines of the model: up to MaxOpts of these pieces, in any order.
\* Values: "a.io", "7", "x", "1900000000", "1800000000"; "x" alone is an
\* unknown option, and an option at the very end has no value.
ArgPieces ==
    {<<OPT_HELP>>, <<OPT_NO_KEYS>>, <<<<120>>>>,
     <<OPT_DOMAIN, <<97, 46, 105, 111>>>>,
     <<OPT_ACCOUNTS, <<55>>>>, <<OPT_ACCOUNTS, <<120>>>>,
     <<OPT_VALID_FROM, <<49, 57, 48, 48, 48, 48, 48, 48, 48, 48>>>>,
     <<OPT_VALID_FROM, <<120>>>>,
     <<OPT_VALID_TO, <<49, 56, 48, 48, 48, 48, 48, 48, 48, 48>>>>,
     <<OPT_VALID_TO, <<120>>>>,
     <<OPT_DOMAIN>>}

RECURSIVE ArgvOfUpTo(_)
ArgvOfUpTo(n) ==
    IF n = 0 THEN {<<>>}
    ELSE ArgvOfUpTo(n - 1)
             \cup {a \o piece : a \in ArgvOfUpTo(n - 1), piece \in ArgPieces}
ArgvSet == ArgvOfUpTo(MaxOpts)

\* Utc::now().timestamp() at the time of a run.
ClockSet == {1700000000}
\* What SystemRandom gives create_key_pair: a key, or 0 for a failure.
RngSet == KeyIds \cup {0}
\* The 32 alphanumeric characters rand::rng() draws for the API key.
ApiKeySet == {[i \in 1..32 |-> 65 + ((i + n) % 26)] : n \in 1..NumApiKeys}

Contains(args, s) == \E i \in 1..Len(args) : args[i] = s

NoLocals ==
    [status |-> "none", generate_keys |-> FALSE, domain |-> <<>>, accounts |-> 0,
     valid_from |-> 0, valid_to |-> 0]

\* What a run leaves to look at: its command line and clock, the locals after
\* the option loop, the key pair it signed with, and its panic message.
RunRecord(argv, now, locals, key, message) ==
    [argv |-> argv, now |-> now, locals |-> locals, key |-> key,
     message |-> message]

\* A run that ends before anything is written.
Ends(how, message) ==
    /\ outcome' = how
    /\ last' = RunRecord(<<>>, 0, NoLocals, 0, message)
    /\ UNCHANGED fileVars

\* A slip: the license is signed with a key pair of its own instead of the one
\* that was generated or loaded.
IssueAndWrite_fresh_key(argv, now, st, key) ==
    /\ \E k \in KeyIds :
          license_key_txt' =
              File(generate_license_key(st.valid_from, st.valid_to, st.domain,
                                        st.accounts, k))
    /\ \E api \in ApiKeySet : api_key_txt' = File(api)
    /\ outcome' = "issued"
    /\ last' = RunRecord(argv, now, st, key, "")

\* Lines 120-154: issue the license with the key pair, write it and the API key.
IssueAndWrite(argv, now, st, key) ==
    /\ license_key_txt' =
           File(generate_license_key(st.valid_from, st.valid_to, st.domain,
                                     st.accounts, key))
    /\ \E api \in ApiKeySet : api_key_txt' = File(api)
    /\ outcome' = "issued"
    /\ last' = RunRecord(argv, now, st, key, "")

\* One run of main, from the command line to the end of the process.  File
\* writes succeed; the dates printed at the end (lines 146-154) are in chrono's
\* range for every timestamp of the model.
Run(argvs) ==
    /\ \E argv \in argvs : \E now \in ClockSet :
          LET args == <<ProgramName>> \o argv
              st == parse_args(args, 1, InitialLocals(build, now), now)
          IN  IF Contains(args, OPT_HELP) THEN Ends("help", "")
              ELSE IF st.status = "arg_error" THEN Ends("arg_error", "")
              ELSE IF st.generate_keys
              THEN \E rng \in RngSet :
                     IF rng = 0 THEN Ends("panic", "Failed to create key pair")
                     ELSE /\ private_key_pkcs8' = File(Pkcs8(rng))
                          /\ public_key_txt' = File(public_key(rng))
                          /\ IssueAndWrite(argv, now, st, rng)
              ELSE IF ~private_key_pkcs8.exists
              THEN Ends("panic", "Failed to read private key file")
              ELSE IF ~from_pkcs8(private_key_pkcs8.data).ok
              THEN Ends("panic", "Failed to create key pair from private key")
              ELSE /\ UNCHANGED <<private_key_pkcs8, public_key_txt>>
                   /\ IssueAndWrite(argv, now, st,
                                    from_pkcs8(private_key_pkcs8.data).key)
    /\ UNCHANGED <<build, tokenVars, serverVars>>

Main == Run(ArgvSet)

\* The command lines of at most one option.
ShortArgvSet == {<<>>} \cup ArgPieces

\* A run of main given at most one option.
MainShort == Run(ShortArgvSet)

\* The working directory before the first run: no private key, a truncated
\* one, or one exported earlier.
Init ==
    /\ private_key_pkcs8 \in {NoFile, File(<<48>>), File(Pkcs8(1))}
    /\ public_key_txt = NoFile
    /\ license_key_txt = NoFile
    /\ api_key_txt = NoFile
    /\ build \in Builds
    /\ outcome = "none"
    /\ last = RunRecord(<<>>, 0, NoLocals, 0, "")
    /\ fields = NoFields
    /\ signer = 0
    /\ wire = <<>>
    /\ origin = "none"
    /\ verdict = NoVerdict
    /\ ServerIdle

Next == Main

Spec == Init /\ [][Next]_vars

NextRuns == MainShort

\* Run after run in one working directory, each with at most one option.
SpecRuns == Init /\ [][NextRuns]_vars

(***************************************************************************)
(* rate_limit.rs: impl RateLimiter for Server.                             *)
(***************************************************************************)
MaxConcurrent == 2
RateRequests == 2

\* Nothing of keygen or of the token protocol has happened.
KeygenIdle ==
    /\ private_key_pkcs8 = NoFile
    /\ public_key_txt = NoFile
    /\ license_key_txt = NoFile
    /\ api_key_txt = NoFile
    /\ build = "src"
    /\ outcome = "none"
    /\ last = [argv |-> <<>>]
    /\ fields = NoFields
    /\ signer = 0
    /\ wire = <<>>
    /\ origin = "none"
    /\ verdict = NoVerdict

\* lookup.is_rate_allowed on a bucket that has counted `count` requests in
\* the current period: None (and the request is counted) while the rate is
\* not used up, Some(wait) after.
is_rate_allowed(count, rate) ==
    IF count < rate.requests THEN "None" ELSE "Some"

\* ConcurrencyLimiter::is_allowed, through the access token.
LimiterResult(limiter) ==
    IF ~limiter.enabled THEN "Disabled"
    ELSE IF limiter.concurrent < limiter.max_concurrent THEN "Allowed"
    ELSE "Forbidden"

\* trc::Result<Option<InFlight>>: Ok(Some(in_flight)) / Ok(None), or Err.
Ok(in_flight) == [result |-> "Ok", in_flight |-> in_flight, event |-> "none"]
Err(event) == [result |-> "Err", in_flight |-> FALSE, event |-> event]

\* A slip: the permission is consulted for the concurrency limit only.
http_authenticated_result_rate_strict(is_allowed, limiter, unlimited) ==
    IF is_allowed
    THEN IF limiter = "Allowed" THEN Ok(TRUE)
         ELSE IF limiter = "Forbidden"
         THEN IF unlimited THEN Ok(FALSE) ELSE Err("ConcurrentRequest")
         ELSE Ok(FALSE)
    ELSE Err("TooManyRequests")

\* Lines 54-70: what is_http_authenticated_request_allowed returns once the
\* rate is known; `limiter` is the LimiterResult, asked for only when
\* is_allowed.
http_authenticated_result(is_allowed, limiter, unlimited) ==
    IF is_allowed
    THEN IF limiter = "Allowed" THEN Ok(TRUE)
         ELSE IF limiter = "Forbidden"
         THEN IF unlimited THEN Ok(FALSE) ELSE Err("ConcurrentRequest")
         ELSE Ok(FALSE)
    ELSE IF unlimited THEN Ok(FALSE)
    ELSE Err("TooManyRequests")

\* Lines 97-107: what is_upload_allowed returns.
upload_result(limiter, unlimited) ==
    IF limiter = "Allowed" THEN Ok(TRUE)
    ELSE IF limiter = "Forbidden"
    THEN IF unlimited THEN Ok(FALSE) ELSE Err("ConcurrentUpload")
    ELSE Ok(FALSE)

\* is_http_authenticated_request_allowed.  The store lookup may fail.
HttpAuthenticatedRequest ==
    /\ \E store_ok \in BOOLEAN :
          LET rate == core.rate_authenticated
              looked == IF ~rate.is_some THEN "skipped"
                        ELSE IF ~store_ok THEN "error"
                        ELSE is_rate_allowed(lookup.authenticated, rate)
              is_allowed == looked \in {"skipped", "None"}
              limiter == IF is_allowed THEN LimiterResult(access_token.http)
                         ELSE "skipped"
          IN  /\ lookup' = IF looked = "None"
                           THEN [lookup EXCEPT !.authenticated = @ + 1]
                           ELSE lookup
              /\ access_token' =
                     IF limiter = "Allowed"
                     THEN [access_token EXCEPT !.http.concurrent = @ + 1]
                     ELSE access_token
              /\ reply' =
                     (IF looked = "error" THEN Err("StoreError")
                      ELSE http_authenticated_result(is_allowed, limiter,
                                                     access_token.unlimited))
                     @@ [call |-> "http_authenticated", rate |-> looked,
                         limiter |-> limiter]
    /\ UNCHANGED <<core, mainVars, tokenVars, undeleteVars>>

\* is_http_anonymous_request_allowed.
HttpAnonymousRequest ==
    /\ \E is_ip_allowed \in BOOLEAN : \E store_ok \in BOOLEAN :
          LET rate == core.rate_anonymous
              looked == IF ~rate.is_some \/ is_ip_allowed THEN "skipped"
                        ELSE IF ~store_ok THEN "error"
                        ELSE is_rate_allowed(lookup.anonymous, rate)
          IN  /\ lookup' = IF looked = "None"
                           THEN [lookup EXCEPT !.anonymous = @ + 1]
                           ELSE lookup
              /\ reply' =
                     (IF looked = "error" THEN Err("StoreError")
                      ELSE IF looked = "Some" THEN Err("TooManyRequests")
                      ELSE Ok(FALSE))
                     @@ [call |-> "http_anonymous", rate |-> looked,
                         limiter |-> "skipped"]
    /\ UNCHANGED <<core, access_token, mainVars, tokenVars, undeleteVars>>

\* is_upload_allowed.
UploadRequest ==
    /\ LET limiter == LimiterResult(access_token.upload)
       IN  /\ access_token' =
                  IF limiter = "Allowed"
                  THEN [access_token EXCEPT !.upload.concurrent = @ + 1]
                  ELSE access_token
           /\ reply' = upload_result(limiter, access_token.unlimited)
                           @@ [call |-> "upload", rate |-> "skipped",
                               limiter |-> limiter]
    /\ UNCHANGED <<core, lookup, mainVars, tokenVars, undeleteVars>>

\* A request ends: its InFlight is dropped and the slot is free again.
DropRequestInFlight ==
    /\ access_token.http.concurrent > 0
    /\ access_token' = [access_token EXCEPT !.http.concurrent = @ - 1]
    /\ UNCHANGED <<core, lookup, reply, mainVars, tokenVars, undeleteVars>>

\* An upload ends.
DropUploadInFlight ==
    /\ access_token.upload.concurrent > 0
    /\ access_token' = [access_token EXCEPT !.upload.concurrent = @ - 1]
    /\ UNCHANGED <<core, lookup, reply, mainVars, tokenVars, undeleteVars>>

\* The period of the rate ends: the store's counters expire.
RatePeriodEnds ==
    /\ lookup # [authenticated |-> 0, anonymous |-> 0]
    /\ lookup' = [authenticated |-> 0, anonymous |-> 0]
    /\ UNCHANGED <<core, access_token, reply, mainVars, tokenVars, undeleteVars>>

RateSet == {NoRate} \cup {SomeRate(n) : n \in 1..RateRequests}
LimiterSet == {NoLimiter} \cup {ConcurrencyLimiter(n) : n \in 1..MaxConcurrent}

\* A server as configured, before its first request, and one access token.
InitRate ==
    /\ core \in {[rate_authenticated |-> a, rate_anonymous |-> b] :
                    a \in RateSet, b \in {NoRate, SomeRate(RateRequests)}}
    /\ lookup = [authenticated |-> 0, anonymous |-> 0]
    /\ access_token \in {[unlimited |-> u, http |-> h, upload |-> p] :
                            u \in BOOLEAN, h \in LimiterSet, p \in LimiterSet}
    /\ reply = NoReply
    /\ KeygenIdle
    /\ UndeleteIdle

NextRate ==
    \/ HttpAuthenticatedRequest
    \/ HttpAnonymousRequest
    \/ UploadRequest
    \/ DropRequestInFlight
    \/ DropUploadInFlight
    \/ RatePeriodEnds

SpecRate == InitRate /\ [][NextRate]_vars

(***************************************************************************)
(* undelete.rs: Core::hold_undelete and Core::list_deleted.  A reservation *)
(* in storage.data is a pair of byte strings: the key is the account id    *)
(* (u32, big-endian), the blob hash and `until` (u64, big-endian); the     *)
(* value is what hold_undelete serialized.  Account ids are below u32::MAX *)
(* and blob sizes below 2^31, so `account_id + 1` and `blob_size as u32`   *)
(* keep their values.                                                      *)
(***************************************************************************)
MaxTicks == 2
MaxHeld == 2

U32_LEN == 4
U64_LEN == 8
BLOB_HASH_LEN == 32

\* KeySerializer::write of an n-byte unsigned integer: big-endian.
RECURSIVE write(_, _)
write(x, n) == IF n = 0 THEN <<>> ELSE write(x \div 256, n - 1) \o <<x % 256>>

\* The big-endian value of a byte string.
RECURSIVE be_value(_)
be_value(b) ==
    IF b = <<>> THEN 0
    ELSE be_value(SubSeq(b, 1, Len(b) - 1)) * 256 + b[Len(b)]

\* DeserializeBigEndian: the n-byte integer at the 0-based `index`, or an
\* error when the bytes are not there.
deserialize_be(bytes, index, n) ==
    IF index < 0 \/ index + n > Len(bytes) THEN [ok |-> FALSE, value |-> 0]
    ELSE [ok |-> TRUE, value |-> be_value(SubSeq(bytes, index + 1, index + n))]

\* BlobHash::default().
DefaultHash == [i \in 1..BLOB_HASH_LEN |-> 0]

\* The key of ValueKey { account_id, class: Blob(Reserve { hash, until }) }.
ReserveKey(account_id, hash, until) ==
    write(account_id, U32_LEN) \o hash \o write(until, U64_LEN)

\* Lines 46-50: the value hold_undelete writes.
HoldValue(blob_size, now, collection) ==
    write(blob_size, U32_LEN) \o write(now, U64_LEN) \o <<collection>>

\* a <= b in the order of the store's keys (byte by byte), from byte i on.
RECURSIVE LexLeqFrom(_, _, _)
LexLeqFrom(a, b, i) ==
    IF i > Len(a) THEN TRUE
    ELSE IF i > Len(b) THEN FALSE
    ELSE IF a[i] # b[i] THEN a[i] < b[i]
    ELSE LexLeqFrom(a, b, i + 1)

LexLeq(a, b) == LexLeqFrom(a, b, 1)

\* The entries of a set of reservations in ascending key order.
RECURSIVE Ascending(_)
Ascending(entries) ==
    IF entries = {} THEN <<>>
    ELSE LET first == CHOOSE e \in entries :
                          \A o \in entries : LexLeq(e.key, o.key)
         IN  <<first>> \o Ascending(entries \ {first})

DeletedBlob(hash, size, deleted_at, expires_at, collection) ==
    [hash |-> hash, size |-> size, deleted_at |-> deleted_at,
     expires_at |-> expires_at, collection |-> collection]

\* A slip: an entry is listed up to and including the second it expires.
Visit_inclusive(rows, i, now, results) ==
    IF i > Len(rows) THEN [ok |-> TRUE, results |-> results]
    ELSE LET key == rows[i].key
             value == rows[i].value
             expires_at == deserialize_be(key, Len(key) - U64_LEN, U64_LEN)
             size == deserialize_be(value, 0, U32_LEN)
             deleted_at == deserialize_be(value, U32_LEN, U64_LEN)
         IN  IF ~expires_at.ok THEN [ok |-> FALSE, results |-> <<>>]
             ELSE IF Len(value) = U32_LEN + U64_LEN + 1
                     /\ expires_at.value >= now
             THEN [ok |-> TRUE,
                   results |-> Append(results,
                       DeletedBlob(SubSeq(key, U32_LEN + 1,
                                          U32_LEN + BLOB_HASH_LEN),
                                   size.value, deleted_at.value,
                                   expires_at.value, value[Len(value)]))]
             ELSE [ok |-> TRUE, results |-> results]

\* Lines 87-104: the closure of list_deleted on the i-th entry of the range:
\* the results with that entry pushed if it is an undelete record that has
\* not expired, or the error that ends the iteration.
Visit(rows, i, now, results) ==
    IF i > Len(rows) THEN [ok |-> TRUE, results |-> results]
    ELSE LET key == rows[i].key
             value == rows[i].value
             expires_at == deserialize_be(key, Len(key) - U64_LEN, U64_LEN)
             size == deserialize_be(value, 0, U32_LEN)
             deleted_at == deserialize_be(value, U32_LEN, U64_LEN)
         IN  IF ~expires_at.ok THEN [ok |-> FALSE, results |-> <<>>]
             ELSE IF Len(value) = U32_LEN + U64_LEN + 1
                     /\ expires_at.value > now
             THEN IF Len(key) < U32_LEN + BLOB_HASH_LEN
                     \/ ~size.ok \/ ~deleted_at.ok
                  THEN [ok |-> FALSE, results |-> <<>>]
                  ELSE [ok |-> TRUE,
                        results |-> Append(results,
                            DeletedBlob(SubSeq(key, U32_LEN + 1,
                                               U32_LEN + BLOB_HASH_LEN),
                                        size.value, deleted_at.value,
                                        expires_at.value, value[Len(value)]))]
             ELSE [ok |-> TRUE, results |-> results]

\* The iteration of lines 83-107 from the i-th entry on.
RECURSIVE Iterate(_, _, _, _)
Iterate(rows, i, now, results) ==
    IF i > Len(rows) THEN [ok |-> TRUE, results |-> results]
    ELSE LET step == Visit(rows, i, now, results)
         IN  IF step.ok THEN Iterate(rows, i + 1, now, step.results) ELSE step

\* list_deleted over the reservations `entries` at time `now`.
list_deleted(entries, account_id, now) ==
    LET from_key == ReserveKey(account_id, DefaultHash, 0)
        to_key == ReserveKey(account_id + 1, DefaultHash, 0)
        range == {e \in entries :
                     LexLeq(from_key, e.key) /\ LexLeq(e.key, to_key)}
    IN  Iterate(Ascending(range), 1, now, <<>>)

AccountIdSet == {1, 2}
CollectionSet == {1, 2}
\* The blobs of the model: a hash and the size of the content it stands for.
BlobHash(n) == [i \in 1..BLOB_HASH_LEN |-> IF i = BLOB_HASH_LEN THEN n ELSE 171]
BlobSet == {[hash |-> BlobHash(1), size |-> 300],
            [hash |-> BlobHash(2), size |-> 70000]}
\* undelete.retention.as_secs() of the configurations of the model.
RetentionSet == {1, 2}

\* A caller starts a batch for an account.
BeginBatch ==
    /\ ~batch.open
    /\ \E account_id \in AccountIdSet :
          batch' = [open |-> TRUE, account_id |-> account_id, ops |-> <<>>]
    /\ deleted' = NoListing
    /\ UNCHANGED <<enterprise, clock, storage, hold, held,
                   mainVars, tokenVars, rateVars>>

\* hold_undelete on the open batch.  Each op carries, next to the key class
\* and the value, the call that made it.
HoldUndelete ==
    /\ batch.open
    /\ Cardinality(storage) + Len(batch.ops) < MaxHeld
    /\ \E collection \in CollectionSet : \E blob \in BlobSet :
          /\ hold' = TRUE
          /\ IF enterprise.is_some /\ enterprise.undelete.is_some
             THEN LET now == clock
                      until == now + enterprise.undelete.retention
                  IN  batch' = [batch EXCEPT !.ops = Append(@,
                          [hash |-> blob.hash, until |-> until,
                           value |-> HoldValue(blob.size, now, collection),
                           call |-> [account_id |-> batch.account_id,
                                     hash |-> blob.hash, size |-> blob.size,
                                     collection |-> collection, t |-> now,
                                     r |-> enterprise.undelete.retention]])]
             ELSE batch' = batch
    /\ deleted' = NoListing
    /\ UNCHANGED <<enterprise, clock, storage, held,
                   mainVars, tokenVars, rateVars>>

\* The reservations after the first n ops of the batch are written: a set
\* on a key that is there replaces its value.
RECURSIVE Written(_, _, _)
Written(entries, b, n) ==
    IF n = 0 THEN entries
    ELSE LET before == Written(entries, b, n - 1)
             key == ReserveKey(b.account_id, b.ops[n].hash, b.ops[n].until)
         IN  {e \in before : e.key # key}
                 \cup {[key |-> key, value |-> b.ops[n].value]}

\* The committed calls after the first n ops of the batch: a later call for
\* the same account, hash and second takes the place of an earlier one.
RECURSIVE Recorded(_, _, _)
Recorded(calls, b, n) ==
    IF n = 0 THEN calls
    ELSE LET before == Recorded(calls, b, n - 1)
             call == b.ops[n].call
         IN  {c \in before : ~(/\ c.account_id = call.account_id
                               /\ c.hash = call.hash
                               /\ c.t = call.t)}
                 \cup {call}

\* The caller commits the batch to the store.
Commit ==
    /\ batch.open
    /\ storage' = Written(storage, batch, Len(batch.ops))
    /\ held' = Recorded(held, batch, Len(batch.ops))
    /\ batch' = NoBatch
    /\ deleted' = NoListing
    /\ UNCHANGED <<enterprise, clock, hold,
                   mainVars, tokenVars, rateVars>>

\* A second passes.
Tick ==
    /\ clock < StartOfTime + MaxTicks
    /\ clock' = clock + 1
    /\ deleted' = NoListing
    /\ UNCHANGED <<enterprise, storage, batch, hold, held,
                   mainVars, tokenVars, rateVars>>

\* list_deleted for an account.
ListDeleted ==
    /\ \E account_id \in AccountIdSet :
          deleted' = list_deleted(storage, account_id, clock)
                         @@ [called |-> TRUE, account_id |-> account_id,
                             now |-> clock]
    /\ UNCHANGED <<enterprise, clock, storage, batch, hold, held,
                   mainVars, tokenVars, rateVars>>

EnterpriseSet ==
    {NoEnterprise, Enterprise(NoUndelete)}
        \cup {Enterprise(Undelete(r)) : r \in RetentionSet}

\* A server as configured, with nothing deleted yet.
InitUndelete ==
    /\ enterprise \in EnterpriseSet
    /\ clock = StartOfTime
    /\ storage = {}
    /\ batch = NoBatch
    /\ hold = FALSE
    /\ held = {}
    /\ deleted = NoListing
    /\ KeygenIdle
    /\ RateIdle

NextUndelete ==
    \/ BeginBatch
    \/ HoldUndelete
    \/ Commit
    \/ Tick
    \/ ListDeleted

SpecUndelete == InitUndelete /\ [][NextUndelete]_vars

(***************************************************************************)
(* Properties of the token protocol.                                       *)
(***************************************************************************)
Verified == verdict.status # "none"
ByIssuerKey == verdict.publicKey = public_key(signer)
ValidFields == fields.validFrom <= fields.validTo
IsByte(x) == x \in 0..255
ExampleCom == <<101, 120, 97, 109, 112, 108, 101, 46, 99, 111, 109>>

\* The wire token is padded STANDARD base64 of the fields in the canonical
\* layout, of which the fixed part is `fixed` bytes long, followed by a
\* signature over exactly the bytes before it.
WireLayout(fixed) ==
    LET raw == STANDARD_decode(wire)
        b == raw.bytes
        dom == as_bytes(fields.domain)
        n == fixed + Len(dom)
    IN  /\ raw.ok
        /\ \A i \in 1..Len(b) : IsByte(b[i])
        /\ Len(b) = n + ED25519_SIGNATURE_LEN
        /\ from_le_bytes(SubSeq(b, 1, 8)) = fields.validFrom
        /\ from_le_bytes(SubSeq(b, 9, 16)) = fields.validTo
        /\ from_le_bytes(SubSeq(b, 17, 20)) = fields.accountLimit
        /\ from_le_bytes(SubSeq(b, 21, 24)) = Len(dom)
        /\ SubSeq(b, 25, 24 + Len(dom)) = dom
        /\ signature_verifies(public_key(signer), SubSeq(b, 1, n),
                              SubSeq(b, n + 1, Len(b)))

\* C1 (as stated): the issued token is base64 of LE64(validFrom) ||
\* LE64(validTo) || LE32(accountLimit) || LE32(len) || domain || signature, the
\* signature being over the preceding 20 + len(domain) bytes.
C1_SignedOver20PlusDomain == origin = "issued" => WireLayout(20)

\* C1 (amended): the same layout, the signature being over the preceding
\* 24 + len(domain) bytes (8 + 8 + 4 + 4 + domain; 35 for "example.com").
C1_SignedOver24PlusDomain == origin = "issued" => WireLayout(FIXED_PREFIX_LEN)

C1_Witness ==
    /\ origin = "issued"
    /\ fields.domain = ExampleCom
    /\ Len(STANDARD_decode(wire).bytes) = 35 + ED25519_SIGNATURE_LEN

\* C2: for valid fields, decoding the canonical bytes gives back the fields,
\* and no other field tuple has the same canonical bytes.
C2_RoundTripInjective ==
    (origin = "issued" /\ ValidFields) =>
        LET data == key_data(fields.validFrom, fields.validTo, fields.domain,
                             fields.accountLimit)
        IN  /\ \A i \in 1..Len(data) : IsByte(data[i])
            /\ decode(data) = [ok |-> TRUE, fields |-> fields]
            /\ decode(FieldRegion(STANDARD_decode(wire).bytes)).fields = fields
            /\ \A g \in FieldSet :
                  g # fields =>
                      key_data(g.validFrom, g.validTo, g.domain, g.accountLimit)
                          # data

C2_Witness ==
    /\ origin = "issued"
    /\ ValidFields
    /\ fields.domain = <<233>>
    /\ decode(FieldRegion(STANDARD_decode(wire).bytes)).ok

\* C3: verifying an issued token under the issuer's public key at a time
\* inside its window returns Ok with exactly the issued fields.
C3_Authenticity ==
    (/\ Verified /\ origin = "issued" /\ ByIssuerKey /\ ValidFields
     /\ fields.validFrom <= verdict.now /\ verdict.now <= fields.validTo)
        => (verdict.status = "Ok" /\ verdict.fields = fields)

C3_Witness ==
    /\ origin = "issued"
    /\ ByIssuerKey
    /\ verdict.status = "Ok"
    /\ verdict.fields = fields
    /\ fields.domain = ExampleCom
    /\ verdict.now = 1700000500

\* Whether the token carries a signature that verifies under the key.
SignatureChecks(publicKey, token) ==
    LET raw == STANDARD_decode(token)
    IN  /\ raw.ok
        /\ Len(raw.bytes) >= ED25519_SIGNATURE_LEN
        /\ signature_verifies(publicKey, FieldRegion(raw.bytes),
                              SignatureOf(raw.bytes))

\* The fields a decodable token claims, NoFields otherwise.
ClaimedFields(token) ==
    LET raw == STANDARD_decode(token)
    IN  IF raw.ok /\ Len(raw.bytes) >= ED25519_SIGNATURE_LEN
        THEN decode(FieldRegion(raw.bytes)).fields
        ELSE NoFields

\* C4: a token whose signature does not verify under the verifier's key is
\* answered Malformed or SignatureInvalid at every time, never Expired or
\* NotYetValid.
C4_SignatureBeforeWindow ==
    (Verified /\ ~SignatureChecks(verdict.publicKey, wire))
        => verdict.status \in {"Malformed", "SignatureInvalid"}

C4_Witness ==
    /\ origin = "tampered"
    /\ verdict.status = "SignatureInvalid"
    /\ ClaimedFields(wire).validTo >= 0
    /\ ClaimedFields(wire).validTo < verdict.now

\* C5: for a correctly signed token with validFrom <= validTo the window is
\* inclusive: Ok on [validFrom, validTo], NotYetValid before, Expired after.
C5_InclusiveWindow ==
    (Verified /\ origin = "issued" /\ ByIssuerKey /\ ValidFields) =>
        verdict.status =
            IF verdict.now < fields.validFrom THEN "NotYetValid"
            ELSE IF verdict.now > fields.validTo THEN "Expired"
            ELSE "Ok"

C5_Witness ==
    /\ origin = "issued"
    /\ ByIssuerKey
    /\ fields.validFrom < fields.validTo
    /\ verdict.now = fields.validTo + 1
    /\ verdict.status = "Expired"

\* C6: a token that is not valid base64, is shorter than the signature, has a
\* field region shorter than the fixed prefix (so also one shorter than 20
\* bytes), or declares a domain length other than the bytes present, is
\* answered Malformed, and the codec rejects its field region.
C6_MalformedRejected ==
    Verified =>
        LET raw == STANDARD_decode(wire)
            short == Len(raw.bytes) < ED25519_SIGNATURE_LEN
            region == FieldRegion(raw.bytes)
            badRegion ==
                \/ Len(region) < FIXED_PREFIX_LEN
                \/ from_le_bytes(SubSeq(region, 21, 24))
                       # Len(region) - FIXED_PREFIX_LEN
        IN  /\ (~raw.ok \/ short) => verdict.status = "Malformed"
            /\ (raw.ok /\ ~short /\ badRegion)
                   => (verdict.status = "Malformed" /\ ~decode(region).ok)

C6_Witness ==
    /\ origin = "truncated"
    /\ verdict.status = "Malformed"
    /\ STANDARD_decode(wire).ok
    /\ Len(STANDARD_decode(wire).bytes) >= ED25519_SIGNATURE_LEN + FIXED_PREFIX_LEN

\* C7: an issued token with one character changed is never accepted under the
\* issuer's public key: the answer is SignatureInvalid or Malformed.
C7_TamperRejected ==
    (Verified /\ origin = "tampered" /\ ByIssuerKey)
        => verdict.status \in {"SignatureInvalid", "Malformed"}

C7_Witness ==
    /\ origin = "tampered"
    /\ ByIssuerKey
    /\ verdict.status = "SignatureInvalid"
    /\ verdict.now >= fields.validFrom
    /\ verdict.now <= fields.validTo

(***************************************************************************)
(* Properties of main.                                                     *)
(***************************************************************************)
\* The fields of the license the last run wrote to license_key.txt.
IssuedFields == ClaimedFields(license_key_txt.data)

\* C8: every license the program issues has validFrom <= validTo, whatever
\* the options and their order.
C8_IssuedWindowOrdered ==
    outcome = "issued" => IssuedFields.validFrom <= IssuedFields.validTo

\* C9: without --valid-to the issued validTo is the issued validFrom plus five
\* years; without --domain and --accounts the license carries the defaults
\* the help text documents.
C9_DocumentedDefaults ==
    outcome = "issued" =>
        /\ ~Contains(last.argv, OPT_VALID_TO)
              => IssuedFields.validTo = IssuedFields.validFrom + FIVE_YEARS
        /\ ~Contains(last.argv, OPT_DOMAIN)
              => IssuedFields.domain = HelpDefaultDomain
        /\ ~Contains(last.argv, OPT_ACCOUNTS)
              => IssuedFields.accountLimit = HelpDefaultAccounts

\* C10: a run never aborts: a failure of key generation, of loading the
\* private key or of signing ends the run with a typed failure.
C10_TypedFailureNoAbort ==
    outcome \in {"none", "help", "arg_error", "issued",
                 "KeyGenFailed", "InvalidKeyMaterial", "SignFailed"}

\* Whether the command line gives --accounts, --valid-from or --valid-to a
\* value that does not parse as an unsigned integer; i walks the options as
\* the loop of main does.
RECURSIVE HasMalformedValue(_, _)
HasMalformedValue(argv, i) ==
    IF i > Len(argv) THEN FALSE
    ELSE IF argv[i] = OPT_NO_KEYS THEN HasMalformedValue(argv, i + 1)
    ELSE IF i + 1 > Len(argv) THEN FALSE
    ELSE \/ /\ argv[i] \in {OPT_ACCOUNTS, OPT_VALID_FROM, OPT_VALID_TO}
            /\ ~parse(argv[i + 1]).ok
         \/ HasMalformedValue(argv, i + 2)

\* C11: a malformed value of --accounts, --valid-from or --valid-to is never
\* replaced by a default: no license is issued by a run that was given one.
C11_NoSilentDefault ==
    outcome = "issued" => ~HasMalformedValue(last.argv, 1)

\* The key pair stored in private_key.pkcs8.
StoredKey == from_pkcs8(private_key_pkcs8.data)

\* The artifacts in the working directory agree: the public key on file is the
\* public half of the private key on file, and the license on file verifies
\* under that key pair's public key.
ArtifactsAgree ==
    /\ public_key_txt.exists =>
          /\ private_key_pkcs8.exists
          /\ StoredKey.ok
          /\ public_key_txt.data = public_key(StoredKey.key)
    /\ license_key_txt.exists =>
          /\ private_key_pkcs8.exists
          /\ StoredKey.ok
          /\ SignatureChecks(public_key(StoredKey.key), license_key_txt.data)

\* A run that completed with --no-keys leaves both key files as they were.
NoKeysKeepsKeys ==
    (outcome' = "issued" /\ ~last'.locals.generate_keys)
        => UNCHANGED <<private_key_pkcs8, public_key_txt>>

\* A run that stops on an argument error or on --help writes no file.
StoppedRunWritesNothing ==
    outcome' \in {"help", "arg_error"} => UNCHANGED fileVars

\* C12: after any sequence of completed runs the three artifacts agree; a
\* --no-keys run leaves private_key.pkcs8 and public_key.txt unchanged; a run
\* that stops on an argument error or on --help writes none of the four files.
C12_ArtifactsAgree ==
    /\ []ArtifactsAgree
    /\ [][NoKeysKeepsKeys /\ StoppedRunWritesNothing]_vars

\* A --no-keys run completed in a directory where an earlier run had written
\* the key pair: all three artifacts are on file.
C12_Witness ==
    /\ outcome = "issued"
    /\ ~last.locals.generate_keys
    /\ public_key_txt.exists
    /\ license_key_txt.exists

(***************************************************************************)
(* Properties of the request limits.                                       *)
(***************************************************************************)
Refusals == {"TooManyRequests", "ConcurrentRequest", "ConcurrentUpload"}

\* What a token holding UnlimitedRequests was last told is no refusal: the
\* call succeeded, or the store lookup failed.
UnlimitedNeverRefused ==
    (access_token.unlimited /\ reply.call \in {"http_authenticated", "upload"})
        => /\ reply.event \notin Refusals
           /\ reply.result = "Err" => reply.event = "StoreError"

\* A token without the permission that meets an exceeded rate is told
\* TooManyRequests, and its limiters are left as they were.
ExceededRateRefused ==
    (HttpAuthenticatedRequest /\ ~access_token.unlimited /\ reply'.rate = "Some")
        => /\ reply'.result = "Err"
           /\ reply'.event = "TooManyRequests"
           /\ UNCHANGED access_token

\* C13: a token holding UnlimitedRequests is never refused by a limit by
\* is_http_authenticated_request_allowed or is_upload_allowed (the only
\* error is a store lookup failure); for a token without it an exceeded rate
\* limit yields TooManyRequests and acquires no in-flight slot.
C13_UnlimitedNeverRefused ==
    /\ []UnlimitedNeverRefused
    /\ [][ExceededRateRefused]_vars

\* A token holding UnlimitedRequests was let through an exceeded rate limit.
C13_Witness ==
    /\ access_token.unlimited
    /\ reply.call = "http_authenticated"
    /\ reply.rate = "Some"
    /\ reply.result = "Ok"

(***************************************************************************)
(* Properties of undelete.                                                 *)
(***************************************************************************)
Elements(seq) == {seq[i] : i \in 1..Len(seq)}

\* What a listing for the account at time n has to show: the committed calls
\* for that account that have not expired.
Due(account_id, n) ==
    {DeletedBlob(c.hash, c.size, c.t, c.t + c.r, c.collection) :
        c \in {h \in held : h.account_id = account_id /\ n < h.t + h.r}}

\* A listing returns, once each, exactly the blobs held for the account at a
\* time t with n < t + r.
ListingIsDue ==
    deleted.called =>
        /\ deleted.ok
        /\ Elements(deleted.results) = Due(deleted.account_id, deleted.now)
        /\ Len(deleted.results) = Cardinality(Elements(deleted.results))

\* Without an undelete setting hold_undelete leaves the batch as it is.
UnconfiguredHoldIsNoop ==
    (~(enterprise.is_some /\ enterprise.undelete.is_some) /\ HoldUndelete)
        => batch' = batch

\* C14: with retention r, a blob recorded by hold_undelete at time t for an
\* account is returned by list_deleted for that account at every time
\* n < t + r and at no time n >= t + r, with deleted_at = t, expires_at =
\* t + r and the recorded size and collection, and for no other account;
\* without an undelete setting hold_undelete leaves the batch unchanged.
C14_ListedWhileRetained ==
    /\ []ListingIsDue
    /\ [][UnconfiguredHoldIsNoop]_vars

\* A listing that shows one blob of the account and leaves out another of
\* the same account that has expired.
C14_Witness ==
    /\ deleted.called
    /\ Len(deleted.results) = 1
    /\ \E h \in held : /\ h.account_id = deleted.account_id
                       /\ deleted.now >= h.t + h.r

====
